---- MODULE Spec2Model ----
(***************************************************************************)
(* A model of utils/critics.py: the AttentionCritic, the two strain        *)
(* networks (SelectiveAttentionNetwork, AttentionNetwork) and the          *)
(* SelectiveAttentionCritic.                                               *)
(*                                                                         *)
(* Tensors are 2-D integer matrices (a sequence of batch rows).  A learned *)
(* layer keeps its shape discipline exactly (a Linear(in, out) applied to  *)
(* an input of another width raises RuntimeError) and computes a real      *)
(* affine map whose weights are small integers derived from the layer's    *)
(* id and the construction seed (the random initialisation).  Real-valued  *)
(* steps are carried out at integer resolution: LeakyReLU and BatchNorm    *)
(* round, softmax weights are exact fractions num/den.                     *)
(***************************************************************************)
EXTENDS Integers, Sequences, FiniteSets, TLC

VARIABLES module, ret, grads

vars == <<module, ret, grads>>

(***************************** bounds ***************************************)
MaxAgents == 3
MaxBatch == 2
MaxGrad == 2
MaxDen == 16
\* the fixed-point resolution of exp: ExpScale stands for 1
ExpScale == 256

\* program constants
RepeatCols == 5
NegSlopeInv == 100
RegScaleInv == 1000
\* e = 2.718..., as the fraction EulerNum / EulerDen
EulerNum == 2718
EulerDen == 1000

(***************************** tensors **************************************)
RECURSIVE SumSeq(_)
SumSeq(s) == IF s = <<>> THEN 0 ELSE Head(s) + SumSeq(Tail(s))

RECURSIVE Flatten(_)
Flatten(ss) == IF ss = <<>> THEN <<>> ELSE Head(ss) \o Flatten(Tail(ss))

MaxOf(S) == CHOOSE x \in S : \A y \in S : y <= x

\* a tensor value, or the exception raised while computing it
T(rows) == [err |-> "", data |-> rows]
Err(e) == [err |-> e, data |-> <<>>]
IsErr(t) == t.err # ""

Rows(t) == Len(t.data)
Cols(t) == IF t.data = <<>> THEN 0 ELSE Len(t.data[1])

\* torch.cat(ts, dim=1) of tensors with the same number of rows
RECURSIVE CatRows(_, _)
CatRows(ts, r) ==
    IF ts = <<>> THEN <<>> ELSE Head(ts).data[r] \o CatRows(Tail(ts), r)

Cat(ts) ==
    IF ts = <<>> THEN Err("RuntimeError")
    ELSE IF \E k \in 1..Len(ts) : IsErr(ts[k])
    THEN ts[CHOOSE k \in 1..Len(ts) :
                IsErr(ts[k]) /\ \A l \in 1..(k - 1) : ~IsErr(ts[l])]
    ELSE T([r \in 1..Rows(ts[1]) |-> CatRows(ts, r)])

(****************************** layers **************************************)
\* the weight and the bias of a Linear layer, fixed by the layer's id
Weight(id, k, c) == ((id + k + 2 * c) % 3) - 1
Bias(id, c) == (id + c) % 2

Linear(in, out, bias, id) ==
    [op |-> "Linear", in |-> in, out |-> out, bias |-> bias, id |-> id]
Activation(name) ==
    [op |-> name, in |-> 0, out |-> 0, bias |-> FALSE, id |-> 0]
BatchNorm1d(n) ==
    [op |-> "BatchNorm1d", in |-> n, out |-> n, bias |-> FALSE, id |-> 0]

LinearRow(l, x) ==
    [c \in 1..l.out |->
        (IF l.bias THEN Bias(l.id, c) ELSE 0)
        + SumSeq([k \in 1..l.in |-> x[k] * Weight(l.id, k, c)])]

\* nn.LeakyReLU(): x for x >= 0, 0.01 * x below, at integer resolution
LeakyReLU(x) == IF x >= 0 THEN x ELSE -((-x) \div NegSlopeInv)
\* nn.ReLU()
ReLU(x) == IF x >= 0 THEN x ELSE 0

\* round(n / sqrt(v)) for n >= 0, v > 0
RoundDivSqrt(n, v) ==
    LET S == {k \in 1..n : (2 * k - 1) * (2 * k - 1) * v <= 4 * n * n}
    IN IF S = {} THEN 0 ELSE MaxOf(S)

\* nn.BatchNorm1d(affine=False) of a module in training mode: each column
\* is centred and scaled by the batch statistics, (x - mean) / sqrt(var)
BatchNormCol(col, r) ==
    LET b == Len(col)
        s == SumSeq(col)
        q == SumSeq([i \in 1..b |-> col[i] * col[i]])
        n == b * col[r] - s
        v == b * q - s * s
    IN IF v = 0 THEN 0
       ELSE IF n >= 0 THEN RoundDivSqrt(n, v) ELSE -RoundDivSqrt(-n, v)

ApplyLayer(l, t) ==
    IF IsErr(t) THEN t
    ELSE IF l.op = "Linear"
    THEN IF Cols(t) # l.in THEN Err("RuntimeError")
         ELSE T([r \in 1..Rows(t) |-> LinearRow(l, t.data[r])])
    ELSE IF l.op = "BatchNorm1d"
    \* the batch size is verified before the width is compared with
    \* num_features
    THEN IF Rows(t) = 1 THEN Err("ValueError")
         ELSE IF Cols(t) # l.in THEN Err("RuntimeError")
         ELSE T([r \in 1..Rows(t) |->
                   [c \in 1..Cols(t) |->
                      BatchNormCol([i \in 1..Rows(t) |-> t.data[i][c]], r)]])
    ELSE IF l.op = "LeakyReLU"
    THEN T([r \in 1..Rows(t) |->
              [c \in 1..Cols(t) |-> LeakyReLU(t.data[r][c])]])
    ELSE T([r \in 1..Rows(t) |->
              [c \in 1..Cols(t) |-> ReLU(t.data[r][c])]])

\* nn.Sequential.forward
RECURSIVE ApplySeq(_, _)
ApplySeq(layers, t) ==
    IF layers = <<>> THEN t
    ELSE ApplySeq(Tail(layers), ApplyLayer(Head(layers), t))

(************************** AttentionCritic *********************************)
\* agent and head indices are the code's (from 0); element a of a ModuleList
\* or of a Python list is element a + 1 of the sequence that models it
At(list, a) == list[a + 1]

Range(s) == {s[k] : k \in 1..Len(s)}

Min(a, b) == IF a < b THEN a ELSE b

\* AttentionCritic.__init__ after its assertion
BuildAttentionCritic(sa_sizes, hidden_dim, norm_in, attend_heads, seed) ==
    LET nagents == Len(sa_sizes)
        attend_dim == hidden_dim \div attend_heads
        bn(n) == IF norm_in THEN <<BatchNorm1d(n)>> ELSE <<>>
    IN [class |-> "AttentionCritic",
        sa_sizes |-> sa_sizes,
        nagents |-> nagents,
        attend_heads |-> attend_heads,
        critic_encoders |->
            [a \in 1..nagents |->
                bn(sa_sizes[a][1] + sa_sizes[a][2])
                \o <<Linear(sa_sizes[a][1] + sa_sizes[a][2], hidden_dim,
                            TRUE, seed + a),
                     Activation("LeakyReLU")>>],
        critics |->
            [a \in 1..nagents |->
                <<Linear(2 * hidden_dim, hidden_dim, TRUE, seed + a + 1),
                  Activation("LeakyReLU"),
                  Linear(hidden_dim, sa_sizes[a][2], TRUE, seed + 2 * a)>>],
        state_encoders |->
            [a \in 1..nagents |->
                bn(sa_sizes[a][1])
                \o <<Linear(sa_sizes[a][1], hidden_dim, TRUE, seed + a + 2),
                     Activation("LeakyReLU")>>],
        key_extractors |->
            [h \in 1..attend_heads |->
                <<Linear(hidden_dim, attend_dim, FALSE, seed + h)>>],
        selector_extractors |->
            [h \in 1..attend_heads |->
                <<Linear(hidden_dim, attend_dim, FALSE, seed + h + 1)>>],
        value_extractors |->
            [h \in 1..attend_heads |->
                <<Linear(hidden_dim, attend_dim, TRUE, seed + h + 2),
                  Activation("LeakyReLU")>>]]

NoModule == [class |-> "None"]

\* AttentionCritic(sa_sizes, hidden_dim, norm_in, attend_heads)
NewAttentionCritic(sa_sizes, hidden_dim, norm_in, attend_heads, seed) ==
    /\ IF (hidden_dim % attend_heads) # 0
       THEN /\ module' = NoModule
            /\ ret' = [status |-> "error", call |-> "AttentionCritic.__init__",
                        err |-> "AssertionError",
                        hidden_dim |-> hidden_dim,
                        attend_heads |-> attend_heads]
       ELSE /\ module' = BuildAttentionCritic(sa_sizes, hidden_dim, norm_in,
                                              attend_heads, seed)
            /\ ret' = [status |-> "ok", call |-> "AttentionCritic.__init__",
                        err |-> "",
                        hidden_dim |-> hidden_dim,
                        attend_heads |-> attend_heads]
    /\ grads' = <<>>

(******************* AttentionCritic.scale_shared_grads **********************)
\* the critic heads counted among the shared modules
SharedModulesWithCritics ==
    <<"key_extractors", "selector_extractors", "value_extractors",
      "critic_encoders", "critics">>

\* lines 72-73: self.shared_modules
SharedModules ==
    <<"key_extractors", "selector_extractors", "value_extractors",
      "critic_encoders">>

\* the ModuleLists of an AttentionCritic that are not in shared_modules
PerAgentModules == <<"critics", "state_encoders">>

\* nn.Module.parameters() of a Sequential: the weight, then the bias, of
\* every Linear (BatchNorm1d(affine=False) and the activations have none)
LayerParameters(name, index, layers, k) ==
    IF layers[k].op # "Linear" THEN <<>>
    ELSE <<[module |-> name, index |-> index, layer |-> k, kind |-> "weight"]>>
         \o (IF layers[k].bias
             THEN <<[module |-> name, index |-> index, layer |-> k,
                     kind |-> "bias"]>>
             ELSE <<>>)

\* nn.ModuleList.parameters()
ModuleParameters(m, name) ==
    Flatten([a \in 1..Len(m[name]) |->
        Flatten([k \in 1..Len(m[name][a]) |->
            LayerParameters(name, a - 1, m[name][a], k)])])

\* lines 75-79: chain(*[m.parameters() for m in self.shared_modules])
SharedParameters(m) ==
    Flatten([i \in 1..Len(SharedModules) |->
                ModuleParameters(m, SharedModules[i])])

PerAgentParameters(m) ==
    Flatten([i \in 1..Len(PerAgentModules) |->
                ModuleParameters(m, PerAgentModules[i])])

\* a parameter's .grad: None, or a value num/den
NoGrad == [none |-> TRUE, num |-> 0, den |-> 1]
Grad(num, den) == [none |-> FALSE, num |-> num, den |-> den]

\* line 87: p.grad.data.mul_(1. / self.nagents)
MulInv(g, nagents) == Grad(g.num, g.den * nagents)

\* lines 86-87: the loop stops at the first parameter whose grad is None
RECURSIVE ScaleFrom(_, _, _)
ScaleFrom(g, ps, nagents) ==
    IF ps = <<>> THEN [err |-> "", grads |-> g]
    ELSE IF g[Head(ps)].none THEN [err |-> "AttributeError", grads |-> g]
    ELSE ScaleFrom([g EXCEPT ![Head(ps)] = MulInv(@, nagents)], Tail(ps),
                   nagents)

ScaleDone(out) ==
    /\ grads' = out.grads
    /\ ret' = [status |-> IF out.err = "" THEN "ok" ELSE "error",
               call |-> "AttentionCritic.scale_shared_grads",
               err |-> out.err]
    /\ UNCHANGED module

\* AttentionCritic.scale_shared_grads()
ScaleSharedGrads ==
    /\ module.class = "AttentionCritic"
    /\ ScaleDone(ScaleFrom(grads, SharedParameters(module), module.nagents))

(*********************** AttentionCritic.forward ****************************)
\* the agents argument: None, or a list of agent indices
NoneAgents == [none |-> TRUE, list |-> <<>>]
ListAgents(l) == [none |-> FALSE, list |-> l]

\* lines 104-105: agents = range(len(self.critic_encoders)) when None
AgentsOf(m, agentsArg) ==
    IF agentsArg.none THEN [k \in 1..Len(m.critic_encoders) |-> k - 1]
    ELSE agentsArg.list

\* [x for i, x in enumerate(xs) if keep(i)], as the kept indices i
RECURSIVE KeptIndices(_, _, _)
KeptIndices(i, n, keep) ==
    IF i >= n THEN <<>>
    ELSE (IF i \in keep THEN <<i>> ELSE <<>>) \o KeptIndices(i + 1, n, keep)

\* line 118: the entries of s_encodings kept for the selectors,
\* [... for i, enc in enumerate(s_encodings) if i in agents]
SelectorPositions(agents) == KeptIndices(0, Len(agents), Range(agents))

\* the keys of every agent, a_i's own included
OtherAgentsWithSelf(nagents, a_i) == KeptIndices(0, nagents, 0..(nagents - 1))

\* lines 129-130: [k for j, k in enumerate(curr_head_keys) if j != a_i]
OtherAgents(nagents, a_i) == KeptIndices(0, nagents, (0..(nagents - 1)) \ {a_i})

Dot(u, v) == SumSeq([k \in 1..Len(u) |-> u[k] * v[k]])

\* x / np.sqrt(d), rounded
DivSqrt(x, d) == IF x >= 0 THEN RoundDivSqrt(x, d) ELSE -RoundDivSqrt(-x, d)

\* x / e^k for k >= 0
RECURSIVE ExpDown(_, _)
ExpDown(x, k) ==
    IF k = 0 \/ x = 0 THEN x
    ELSE ExpDown((x * EulerDen) \div EulerNum, k - 1)

\* exp(d) for d <= 0 in fixed point, rounded: ExpScale stands for 1, and
\* what is below the resolution underflows to 0
ExpFix(d) ==
    (ExpDown(ExpScale * EulerDen, -d) + EulerDen \div 2) \div EulerDen

\* softmax along the last axis of a matrix: a fraction num/den per entry
SoftmaxLast(x) ==
    [r \in 1..Len(x) |->
        LET mx == MaxOf(Range(x[r]))
            e == [c \in 1..Len(x[r]) |-> ExpFix(x[r][c] - mx)]
        IN [c \in 1..Len(x[r]) |-> [num |-> e[c], den |-> SumSeq(e)]]]

\* softmax along axis 0 (the batch) of a matrix
SoftmaxBatch(x) ==
    [r \in 1..Len(x) |->
        [c \in 1..Len(x[r]) |->
            LET col == [i \in 1..Len(x) |-> x[i][c]]
                mx == MaxOf(Range(col))
                e == [i \in 1..Len(x) |-> ExpFix(col[i] - mx)]
            IN [num |-> e[r], den |-> SumSeq(e)]]]

\* the softmax taken along the batch axis instead
AttendSoftmaxOverBatch(x) == SoftmaxBatch(x)

\* line 136: F.softmax(scaled_attend_logits, dim=2) of a (batch, 1, others)
\* tensor, held as a batch x others matrix
AttendSoftmax(x) == SoftmaxLast(x)

\* lines 132-133: torch.matmul(selector.view(b, 1, -1),
\*                              torch.stack(keys).permute(1, 2, 0))
AttendLogits(selector, keys) ==
    [r \in 1..Rows(selector) |->
        [k \in 1..Len(keys) |-> Dot(selector.data[r], keys[k].data[r])]]

\* line 135: attend_logits / np.sqrt(keys[0].shape[1])
ScaledLogits(attend_logits, keys) ==
    [r \in 1..Len(attend_logits) |->
        [k \in 1..Len(keys) |-> DivSqrt(attend_logits[r][k], Cols(keys[1]))]]

\* lines 137-138: (torch.stack(values).permute(1, 2, 0) * attend_weights)
\*                .sum(dim=2)
OtherValues(values, attend_weights) ==
    [r \in 1..Len(attend_weights) |->
        [c \in 1..Cols(values[1]) |->
            SumSeq([k \in 1..Len(values) |->
                      values[k].data[r][c] * attend_weights[r][k].num])
            \div attend_weights[r][1].den]]

AttendRecord(a_i, sel_pos, others, attend_logits, attend_weights, values) ==
    [err |-> "", a_i |-> a_i, sel_pos |-> sel_pos, others |-> others,
     logits |-> attend_logits, probs |-> attend_weights,
     other_values |-> T(OtherValues(values, attend_weights))]

AttendOver(a_i, sel_pos, others, selector, keys, values, attend_logits) ==
    AttendRecord(a_i, sel_pos, others, attend_logits,
                 AttendSoftmax(ScaledLogits(attend_logits, keys)), values)

\* lines 129-141: one head's attention of the agent a_i with `selector`
AttendOthers(a_i, sel_pos, others, selector, head_keys, head_values) ==
    IF others = <<>>
    THEN [err |-> "RuntimeError", a_i |-> a_i, sel_pos |-> sel_pos,
          others |-> others, logits |-> <<>>, probs |-> <<>>,
          other_values |-> Err("RuntimeError")]
    ELSE AttendOver(a_i, sel_pos, others, selector,
                    [k \in 1..Len(others) |-> At(head_keys, others[k])],
                    [k \in 1..Len(others) |-> At(head_values, others[k])],
                    AttendLogits(selector,
                        [k \in 1..Len(others) |-> At(head_keys, others[k])]))

Attend(m, a_i, sel_pos, selector, head_keys, head_values) ==
    AttendOthers(a_i, sel_pos, OtherAgents(m.nagents, a_i), selector,
                 head_keys, head_values)

\* line 145: probs.squeeze().sum(1) of a (batch, 1, others) tensor needs two
\* axes left after the squeeze
EntropyRaises(probs) == Len(probs) = 1 \/ Len(probs[1]) = 1

\* line 150: actions[a_i].max(dim=1, keepdim=True)[1]
ArgMax(row) ==
    (CHOOSE k \in 1..Len(row) :
        /\ \A l \in 1..Len(row) : row[l] <= row[k]
        /\ \A l \in 1..(k - 1) : row[l] < row[k]) - 1

\* line 151: all_q.gather(1, int_acs)
Gather(all_q, int_acs) ==
    [r \in 1..Len(all_q) |-> <<all_q[r][int_acs[r] + 1]>>]

FirstErr(ts) ==
    IF \E k \in 1..Len(ts) : ts[k].err # ""
    THEN ts[CHOOSE k \in 1..Len(ts) :
                ts[k].err # "" /\ \A l \in 1..(k - 1) : ts[l].err = ""].err
    ELSE ""

\* line 110: sa_encodings
SaEncodings(m, inps) ==
    [a \in 1..m.nagents |->
        ApplySeq(m.critic_encoders[a], Cat(<<T(inps[a].s), T(inps[a].a)>>))]

\* line 112: s_encodings
SEncodings(m, inps, agents) ==
    [i \in 1..Len(agents) |->
        ApplySeq(At(m.state_encoders, agents[i]), T(At(inps, agents[i]).s))]

\* lines 114 and 116: all_head_keys, all_head_values
AllHead(extractors, sa_encodings) ==
    [h \in 1..Len(extractors) |->
        [a \in 1..Len(sa_encodings) |->
            ApplySeq(extractors[h], sa_encodings[a])]]

\* lines 118-119: all_head_selectors
AllHeadSelectors(m, s_encodings, sel_pos) ==
    [h \in 1..Len(m.selector_extractors) |->
        [k \in 1..Len(sel_pos) |->
            ApplySeq(m.selector_extractors[h], At(s_encodings, sel_pos[k]))]]

\* lines 121-141: the loop over the heads and, per head, over
\* zip(range(len(agents)), agents, curr_head_selectors)
AttendLoop(m, agents, sel_pos, enc_err, all_head_keys, all_head_values, all_head_selectors) ==
    [i \in 1..Len(agents) |->
        IF enc_err # "" \/ i > Min(Len(agents), Len(sel_pos)) THEN <<>>
        ELSE [h \in 1..Min(Min(Len(all_head_keys), Len(all_head_values)),
                           Len(all_head_selectors)) |->
                Attend(m, agents[i], sel_pos[i], all_head_selectors[h][i],
                       all_head_keys[h], all_head_values[h])]]

AttendResult(enc_err, s_encodings, sel_pos, attend) ==
    [err |-> IF enc_err # "" THEN enc_err ELSE FirstErr(Flatten(attend)),
     s_encodings |-> s_encodings,
     sel_pos |-> sel_pos,
     attend |-> attend]

AttendEncoded(m, agents, sa_encodings, s_encodings, sel_pos) ==
    AttendResult(FirstErr(sa_encodings \o s_encodings), s_encodings, sel_pos,
        AttendLoop(m, agents, sel_pos, FirstErr(sa_encodings \o s_encodings),
                   AllHead(m.key_extractors, sa_encodings),
                   AllHead(m.value_extractors, sa_encodings),
                   AllHeadSelectors(m, s_encodings, sel_pos)))

\* lines 106-141: the encodings and the attention of every head
AttendAll(m, inps, agents) ==
    AttendEncoded(m, agents, SaEncodings(m, inps), SEncodings(m, inps, agents),
                  SelectorPositions(agents))

AgentQOf(entropy_raises, critic_in, all_q, actions) ==
    IF entropy_raises
    THEN [err |-> "IndexError", critic_in |-> Err("IndexError"),
          all_q |-> <<>>, q |-> <<>>]
    ELSE IF IsErr(all_q)
    THEN [err |-> all_q.err, critic_in |-> critic_in,
          all_q |-> <<>>, q |-> <<>>]
    ELSE [err |-> "", critic_in |-> critic_in, all_q |-> all_q.data,
          q |-> Gather(all_q.data,
                       [r \in 1..Len(actions) |-> ArgMax(actions[r])])]

\* line 148: critic_in = torch.cat((s_encodings[i], *other_all_values[i]), dim=1)
CriticIn(s_encoding, att_i) ==
    Cat(<<s_encoding>> \o [h \in 1..Len(att_i) |-> att_i[h].other_values])

AgentQIn(critic, entropy_raises, critic_in, actions) ==
    AgentQOf(entropy_raises, critic_in,
             IF entropy_raises THEN critic_in ELSE ApplySeq(critic, critic_in),
             actions)

\* q gathered at column 0 whatever action the agent took
AgentQFirstColumn(m, inps, agents, att, i) ==
    AgentQIn(At(m.critics, agents[i]),
             \E h \in 1..Len(att.attend[i]) :
                 EntropyRaises(att.attend[i][h].probs),
             CriticIn(att.s_encodings[i], att.attend[i]),
             [r \in 1..Len(At(inps, agents[i]).a) |-> <<1>>])

\* lines 145-151: the Q-values of the agent at position i of agents
AgentQ(m, inps, agents, att, i) ==
    AgentQIn(At(m.critics, agents[i]),
             \E h \in 1..Len(att.attend[i]) :
                 EntropyRaises(att.attend[i][h].probs),
             CriticIn(att.s_encodings[i], att.attend[i]),
             At(inps, agents[i]).a)

\* lines 158-160: regs = (1e-3 * sum((logit**2).mean() ...),)
AttendMagReg(att_i) ==
    <<[num |-> SumSeq([h \in 1..Len(att_i) |->
                  SumSeq(Flatten([r \in 1..Len(att_i[h].logits) |->
                      [k \in 1..Len(att_i[h].logits[r]) |->
                          att_i[h].logits[r][k] * att_i[h].logits[r][k]]]))
                  \div (Len(att_i[h].logits) * Len(att_i[h].logits[1]))]),
       den |-> RegScaleInv]>>

\* line 163: np.array(all_attend_probs[i]) calls Tensor.numpy() on each of
\* the head's probabilities, which are computed from the module's parameters
\* and require grad whenever grad mode is enabled: numpy() then raises
NumpyRaises(att_i, grad_enabled) == grad_enabled /\ Len(att_i) >= 1

\* all_q collected before q
AgentRetsAllQFirst(step, att_i, return_q, return_all_q, regularize, return_attend, grad_enabled) ==
    IF return_attend /\ NumpyRaises(att_i, grad_enabled)
    THEN [err |-> "RuntimeError", items |-> <<>>]
    ELSE [err |-> "",
          items |->
            (IF return_all_q THEN <<[kind |-> "all_q", v |-> step.all_q]>>
             ELSE <<>>)
            \o (IF return_q THEN <<[kind |-> "q", v |-> step.q]>> ELSE <<>>)
            \o (IF regularize
                THEN <<[kind |-> "regs", v |-> AttendMagReg(att_i)]>>
                ELSE <<>>)
            \o (IF return_attend
                THEN <<[kind |-> "attend",
                        v |-> [h \in 1..Len(att_i) |-> att_i[h].probs]]>>
                ELSE <<>>)]

\* lines 147, 152-163: agent_rets, or the exception of line 163
AgentRets(step, att_i, return_q, return_all_q, regularize, return_attend, grad_enabled) ==
    IF return_attend /\ NumpyRaises(att_i, grad_enabled)
    THEN [err |-> "RuntimeError", items |-> <<>>]
    ELSE [err |-> "",
          items |->
            (IF return_q THEN <<[kind |-> "q", v |-> step.q]>> ELSE <<>>)
            \o (IF return_all_q THEN <<[kind |-> "all_q", v |-> step.all_q]>>
                ELSE <<>>)
            \o (IF regularize
                THEN <<[kind |-> "regs", v |-> AttendMagReg(att_i)]>>
                ELSE <<>>)
            \o (IF return_attend
                THEN <<[kind |-> "attend",
                        v |-> [h \in 1..Len(att_i) |-> att_i[h].probs]]>>
                ELSE <<>>)]

\* lines 169-172 and 173-176: a list of one element is returned as that element
Unwrap(list) == [bare |-> Len(list) = 1, items |-> list]

ForwardArgs(agentsArg, inps, return_q, return_all_q, regularize, return_attend, grad_enabled) ==
    [agents |-> agentsArg, inps |-> inps, return_q |-> return_q,
     return_all_q |-> return_all_q, regularize |-> regularize,
     return_attend |-> return_attend,
     \* torch.is_grad_enabled() at the call
     grad_enabled |-> grad_enabled]

ForwardSteps(agents, att, all_steps) ==
    [err |-> IF att.err # "" THEN att.err ELSE FirstErr(all_steps),
     agents |-> agents,
     sel_pos |-> att.sel_pos,
     attend |-> att.attend,
     \* the loop of line 144 stops at the first agent that raises
     steps |-> IF att.err # "" THEN <<>>
               ELSE IF FirstErr(all_steps) = "" THEN all_steps
               ELSE SubSeq(all_steps, 1,
                           CHOOSE k \in 1..Len(agents) :
                              /\ all_steps[k].err # ""
                              /\ \A l \in 1..(k - 1) : all_steps[l].err = "")]

ForwardAttended(m, inps, agents, att) ==
    ForwardSteps(agents, att,
        IF att.err # "" THEN <<>>
        ELSE [i \in 1..Len(agents) |-> AgentQ(m, inps, agents, att, i)])

\* lines 104-151 of AttentionCritic.forward: everything but the return flags
ForwardCore(m, inps, agentsArg) ==
    ForwardAttended(m, inps, AgentsOf(m, agentsArg),
                    AttendAll(m, inps, AgentsOf(m, agentsArg)))

\* lines 152-168 for the agent at position i: its entry of all_rets, or the
\* exception of line 163
AgentRetsAt(core, args, i) ==
    AgentRets(core.steps[i], core.attend[i], args.return_q,
              args.return_all_q, args.regularize, args.return_attend,
              args.grad_enabled)

\* the loop of line 144 ends at line 163 of its first iteration when that
\* iteration got there and np.array raises
RaisesAtFirst(core, args) ==
    /\ Len(core.steps) >= 1
    /\ core.steps[1].err = ""
    /\ AgentRetsAt(core, args, 1).err # ""

\* lines 143-176: what forward returns (or the exception it raised)
ForwardReturned(core, args, err) ==
    [status |-> IF err = "" THEN "ok" ELSE "error",
     call |-> "AttentionCritic.forward",
     err |-> err,
     args |-> args,
     agents |-> core.agents,
     sel_pos |-> core.sel_pos,
     attend |-> core.attend,
     steps |-> IF RaisesAtFirst(core, args)
               THEN SubSeq(core.steps, 1, 1) ELSE core.steps,
     value |-> IF err = ""
               THEN Unwrap([i \in 1..Len(core.agents) |->
                                Unwrap(AgentRetsAt(core, args, i).items)])
               ELSE Unwrap(<<>>)]

ForwardReturn(core, args) ==
    ForwardReturned(core, args,
        IF RaisesAtFirst(core, args) THEN AgentRetsAt(core, args, 1).err
        ELSE core.err)

\* AttentionCritic.forward(inps, agents, return_q, return_all_q, regularize,
\*                         return_attend, logger=None), called with grad
\* mode enabled or under torch.no_grad()
ACForward(inps, agentsArg) ==
    /\ module.class = "AttentionCritic"
    /\ \E core \in {ForwardCore(module, inps, agentsArg)} :
         \E return_q, return_all_q, regularize, return_attend,
            grad_enabled \in BOOLEAN :
            ret' = ForwardReturn(core,
                       ForwardArgs(agentsArg, inps, return_q, return_all_q,
                                   regularize, return_attend, grad_enabled))
    /\ UNCHANGED <<module, grads>>

(******************** the strain networks ***********************************)
\* lines 190-204 and 286-299: one strain per (w, d) of zip(widths,
\* hidden_layers): Linear(input_dim, w), d - 1 times Linear(w, w),
\* Linear(w, output_dim)
BuildStrains(input_dim, output_dim, widths, hidden_layers, seed) ==
    [i \in 1..Min(Len(widths), Len(hidden_layers)) |->
        <<Linear(input_dim, widths[i], TRUE, seed + i)>>
        \o [k \in 1..(hidden_layers[i] - 1) |->
               Linear(widths[i], widths[i], TRUE, seed + i + k)]
        \o <<Linear(widths[i], output_dim, TRUE, seed + i + 1)>>]

\* lines 207-225: the selector; selector_width is overwritten by
\* selector_input_dim (line 209)
BuildSelector(input_dim, output_dim, widths, selector_depth, seed) ==
    LET selector_input_dim == input_dim + output_dim * Len(widths)
        selector_output_dim == Len(widths)
        selector_width == selector_input_dim
    IN <<Linear(selector_input_dim, selector_width, TRUE, seed)>>
       \o [k \in 1..(selector_depth - 1) |->
              Linear(selector_width, selector_width, TRUE, seed + k)]
       \o <<Linear(selector_input_dim, selector_output_dim, TRUE, seed + 2)>>

\* the constructor without its assertion on selector_depth
BuildNetworkDepthUnchecked(class, input_dim, output_dim, widths, hidden_layers, selector_width, selector_depth, seed) ==
    IF ~(Len(widths) = Len(hidden_layers))
    THEN [class |-> "None", err |-> "AssertionError", strains |-> <<>>,
          selector |-> <<>>, selector_layers |-> <<>>]
    ELSE [class |-> class, err |-> "",
          strains |-> BuildStrains(input_dim, output_dim, widths,
                                   hidden_layers, seed),
          selector |-> <<>>, selector_layers |-> <<>>]

\* SelectiveAttentionNetwork.__init__ and AttentionNetwork.__init__: the
\* network, or the exception of the constructor
BuildNetwork(class, input_dim, output_dim, widths, hidden_layers, selector_width, selector_depth, seed) ==
    IF ~(selector_depth >= 1) \/ ~(Len(widths) = Len(hidden_layers))
    THEN [class |-> "None", err |-> "AssertionError", strains |-> <<>>,
          selector |-> <<>>, selector_layers |-> <<>>]
    ELSE IF class = "SelectiveAttentionNetwork"
    THEN [class |-> class, err |-> "",
          strains |-> BuildStrains(input_dim, output_dim, widths,
                                   hidden_layers, seed),
          selector |-> BuildSelector(input_dim, output_dim, widths,
                                     selector_depth, seed),
          \* line 194: the weight of every strain's first layer
          selector_layers |->
              [i \in 1..Min(Len(widths), Len(hidden_layers)) |->
                  Linear(input_dim, widths[i], TRUE, seed + i)]]
    ELSE [class |-> class, err |-> "",
          strains |-> BuildStrains(input_dim, output_dim, widths,
                                   hidden_layers, seed),
          selector |-> <<>>, selector_layers |-> <<>>]

\* lines 232-241 and 305-314: one strain's output
StrainOutput(strain, input) ==
    ApplyLayer(strain[Len(strain)],
        ApplySeq(Flatten([k \in 1..(Len(strain) - 1) |->
                            <<strain[k], Activation("ReLU")>>]), input))

StrainOutputs(net, input) ==
    [i \in 1..Len(net.strains) |-> StrainOutput(net.strains[i], input)]

\* line 216: self.selector_output_activation = nn.Softmax(dim=0)
SelectorOutputActivation(x) == SoftmaxBatch(x)

\* lines 252-258: the selector's scores
SelectorScores(net, selector_input) ==
    StrainOutput(net.selector, selector_input)

\* line 263: scores[:, i:i+1].repeat(1, 5), and line 265: out * score, which
\* broadcasts a column of width 1 and raises for any other width but 5
ScoredOut(out, scores, i) ==
    IF Cols(out) # RepeatCols /\ Cols(out) # 1 THEN Err("RuntimeError")
    ELSE T([r \in 1..Rows(out) |->
              [c \in 1..RepeatCols |->
                  (out.data[r][IF Cols(out) = 1 THEN 1 ELSE c]
                   * scores[r][i].num) \div scores[r][i].den]])

\* line 268 and line 317: the sum of tensors of one shape
SumTensors(ts) ==
    IF ts = <<>> THEN Err("RuntimeError")
    ELSE IF FirstErr(ts) # "" THEN Err(FirstErr(ts))
    ELSE T([r \in 1..Rows(ts[1]) |->
              [c \in 1..Cols(ts[1]) |->
                  SumSeq([i \in 1..Len(ts) |-> ts[i].data[r][c]])]])

SANScored(strain_outputs, scores) ==
    [err |-> "", strain_outputs |-> strain_outputs, scores |-> scores,
     output |-> SumTensors([i \in 1..Len(strain_outputs) |->
                              ScoredOut(strain_outputs[i], scores, i)])]

SANMix(strain_outputs, logits) ==
    IF IsErr(logits)
    THEN [err |-> logits.err, strain_outputs |-> strain_outputs,
          scores |-> <<>>, output |-> logits]
    ELSE SANScored(strain_outputs, SelectorOutputActivation(logits.data))

SANSelect(net, input, strain_outputs) ==
    SANMix(strain_outputs,
           SelectorScores(net, Cat(<<Cat(strain_outputs), input>>)))

\* SelectiveAttentionNetwork.forward
SANForward(net, input) == SANSelect(net, input, StrainOutputs(net, input))

ANSum(strain_outputs) ==
    [err |-> "", strain_outputs |-> strain_outputs, scores |-> <<>>,
     output |-> SumTensors(strain_outputs)]

\* AttentionNetwork.forward
ANForward(net, input) == ANSum(StrainOutputs(net, input))

WithErr(r) == [r EXCEPT !.err = r.output.err]

NetForward(net, input) ==
    IF net.class = "SelectiveAttentionNetwork"
    THEN WithErr(SANForward(net, input))
    ELSE WithErr(ANForward(net, input))

\* SelectiveAttentionNetwork(...) or AttentionNetwork(...)
NewNetworkBuilt(net, args) ==
    /\ module' = IF net.err # "" THEN NoModule ELSE net
    /\ ret' = [status |-> IF net.err # "" THEN "error" ELSE "ok",
               call |-> "Network.__init__", err |-> net.err, args |-> args]
    /\ grads' = <<>>

NewNetwork(class, input_dim, output_dim, widths, hidden_layers, selector_width, selector_depth, seed) ==
    NewNetworkBuilt(
        BuildNetwork(class, input_dim, output_dim, widths, hidden_layers,
                     selector_width, selector_depth, seed),
        [class |-> class, input_dim |-> input_dim, output_dim |-> output_dim,
         widths |-> widths, hidden_layers |-> hidden_layers,
         selector_depth |-> selector_depth])

\* net.forward(input)
CallNetwork(input) ==
    /\ module.class \in {"SelectiveAttentionNetwork", "AttentionNetwork"}
    /\ \E out \in {NetForward(module, T(input))} :
         ret' = [status |-> IF out.err = "" THEN "ok" ELSE "error",
                 call |-> "Network.forward", err |-> out.err,
                 input |-> input, strain_outputs |-> out.strain_outputs,
                 scores |-> out.scores, output |-> out.output]
    /\ UNCHANGED <<module, grads>>

(********************* SelectiveAttentionCritic *****************************)
SumSizes(sa_sizes) ==
    SumSeq([a \in 1..Len(sa_sizes) |-> sa_sizes[a][1] + sa_sizes[a][2]])

\* lines 346-365: one critic network per agent, of the class that
\* with_selector picks, fed with the full joint input
BuildSACCritics(sa_sizes, widths, hidden_layers, selector_width, selector_depth, with_selector, seed) ==
    [a \in 1..Len(sa_sizes) |->
        BuildNetwork(IF with_selector THEN "SelectiveAttentionNetwork"
                     ELSE "AttentionNetwork",
                     SumSizes(sa_sizes), sa_sizes[a][2], widths,
                     hidden_layers, selector_width, selector_depth,
                     seed + a)]

NewSACBuilt(sa_sizes, with_selector, critics) ==
    /\ module' = IF FirstErr(critics) # "" THEN NoModule
                 ELSE [class |-> "SelectiveAttentionCritic",
                       sa_sizes |-> sa_sizes,
                       nagents |-> Len(sa_sizes),
                       full_input_size |-> SumSizes(sa_sizes),
                       with_selector |-> with_selector,
                       critics |-> critics]
    /\ ret' = [status |-> IF FirstErr(critics) # "" THEN "error" ELSE "ok",
               call |-> "SelectiveAttentionCritic.__init__",
               err |-> FirstErr(critics)]
    /\ grads' = <<>>

\* SelectiveAttentionCritic(sa_sizes, widths, hidden_layers, selector_width,
\*                          selector_depth, with_selector)
NewSelectiveAttentionCritic(sa_sizes, widths, hidden_layers, selector_width, selector_depth, with_selector, seed) ==
    NewSACBuilt(sa_sizes, with_selector,
        BuildSACCritics(sa_sizes, widths, hidden_layers, selector_width,
                        selector_depth, with_selector, seed))

\* lines 403-406: get_selector_layers() exists on SelectiveAttentionNetwork
\* only; l1_loss = sum(torch.sum(w) for w in selectors)
L1Loss(net) ==
    SumSeq([i \in 1..Len(net.selector_layers) |->
        SumSeq(Flatten([k \in 1..net.selector_layers[i].in |->
            [c \in 1..net.selector_layers[i].out |->
                Weight(net.selector_layers[i].id, k, c)]]))])

HasSelectorLayers(net) == net.class = "SelectiveAttentionNetwork"

SACAgentOf(net, out, actions, regularize) ==
    IF out.err # ""
    THEN [err |-> out.err, all_q |-> <<>>, q |-> <<>>, regs |-> <<>>]
    ELSE IF regularize /\ ~HasSelectorLayers(net)
    THEN [err |-> "AttributeError", all_q |-> out.output.data,
          q |-> Gather(out.output.data,
                       [r \in 1..Len(actions) |-> ArgMax(actions[r])]),
          regs |-> <<>>]
    ELSE [err |-> "", all_q |-> out.output.data,
          q |-> Gather(out.output.data,
                       [r \in 1..Len(actions) |-> ArgMax(actions[r])]),
          regs |-> IF regularize THEN <<L1Loss(net)>> ELSE <<>>]

\* lines 394-395: critic_in = torch.cat(tuple(inps), dim=1) and
\* self.critics[a](critic_in), for every agent a
CriticOutputs(m, inps) ==
    [a \in 1..m.nagents |->
        NetForward(m.critics[a],
                   Cat([k \in 1..Len(inps) |->
                          Cat(<<T(inps[k].s), T(inps[k].a)>>)]))]

\* lines 393-406: the Q-values of the agent at position i of agents
SACAgent(m, inps, outs, agents, i, regularize) ==
    SACAgentOf(At(m.critics, agents[i]), At(outs, agents[i]),
               At(inps, agents[i]).a, regularize)

\* lines 398-414: agent_rets (return_attend adds nothing)
SACAgentRets(step, return_q, return_all_q, regularize) ==
    (IF return_q THEN <<[kind |-> "q", v |-> step.q]>> ELSE <<>>)
    \o (IF return_all_q THEN <<[kind |-> "all_q", v |-> step.all_q]>>
        ELSE <<>>)
    \o (IF regularize THEN <<[kind |-> "regs", v |-> step.regs]>> ELSE <<>>)

SACSteps(agents, all_steps, args, outs) ==
    [status |-> IF FirstErr(all_steps) = "" THEN "ok" ELSE "error",
     call |-> "SelectiveAttentionCritic.forward",
     err |-> FirstErr(all_steps),
     args |-> args,
     agents |-> agents,
     \* what each agent's critic network makes of the joint input
     critic_outputs |-> [a \in 1..Len(outs) |-> outs[a].output],
     \* the loop of line 392 stops at the first agent that raises
     steps |-> IF FirstErr(all_steps) = "" THEN all_steps
               ELSE SubSeq(all_steps, 1,
                           CHOOSE k \in 1..Len(agents) :
                              /\ all_steps[k].err # ""
                              /\ \A l \in 1..(k - 1) : all_steps[l].err = ""),
     value |-> IF FirstErr(all_steps) # "" THEN Unwrap(<<>>)
               ELSE Unwrap([i \in 1..Len(agents) |->
                       Unwrap(SACAgentRets(all_steps[i], args.return_q,
                                           args.return_all_q,
                                           args.regularize))])]

\* lines 382-383: agents = range(self.nagents) when None
SACAgentsOf(m, agentsArg) ==
    IF agentsArg.none THEN [k \in 1..m.nagents |-> k - 1] ELSE agentsArg.list

SACForwardValue(m, args, agents, outs) ==
    SACSteps(agents,
             [i \in 1..Len(agents) |->
                 SACAgent(m, args.inps, outs, agents, i, args.regularize)],
             args, outs)

\* SelectiveAttentionCritic.forward(inps, agents, return_q, return_all_q,
\*                                  regularize, return_attend, logger=None);
\* nothing in it depends on the grad mode, taken to be the default
SACForward(inps, agentsArg, outs) ==
    /\ module.class = "SelectiveAttentionCritic"
    /\ \E return_q, return_all_q, regularize, return_attend \in BOOLEAN :
         ret' = SACForwardValue(module,
                    ForwardArgs(agentsArg, inps, return_q, return_all_q,
                                regularize, return_attend, TRUE),
                    SACAgentsOf(module, agentsArg), outs)
    /\ UNCHANGED <<module, grads>>

(****************************** inputs **************************************)
HiddenDims == {2, 3}
AttendHeads == {1, 2}
Seeds == {0, 1}
Patterns == {0, 1}

\* sa_sizes of n agents: (sdim, adim) per agent
SaSizes(n) == [a \in 1..n |-> <<1, 2 + ((a - 1) % 2)>>]

OneHot(n, k) == [c \in 1..n |-> IF c = k + 1 THEN 1 ELSE 0]

\* a batch of b rows for every agent: a 0/1 state row and a one-hot action
Inps(sa_sizes, b, p) ==
    [a \in 1..Len(sa_sizes) |->
        [s |-> [r \in 1..b |->
                  [k \in 1..sa_sizes[a][1] |-> (a + r + k + p) % 2]],
         a |-> [r \in 1..b |-> OneHot(sa_sizes[a][2],
                                      (a + r + p) % sa_sizes[a][2])]]]

WidthsChoices == {<<>>, <<2>>, <<2, 3>>}
HiddenLayersChoices == {<<>>, <<1>>, <<2, 1>>}
SelectorDepths == {0, 1, 2}
InputDims == {2}
OutputDims == {1, 2, 5}
NetClasses == {"SelectiveAttentionNetwork", "AttentionNetwork"}

\* sa_sizes of n agents for the SelectiveAttentionCritic, all of action
\* size adim
SacSaSizes(n, adim) == [a \in 1..n |-> <<1, adim>>]
SacShapes ==
    {[widths |-> <<2>>, hidden_layers |-> <<1>>, selector_depth |-> 1],
     [widths |-> <<2, 3>>, hidden_layers |-> <<2, 1>>, selector_depth |-> 2],
     [widths |-> <<2>>, hidden_layers |-> <<1, 1>>, selector_depth |-> 1]}

\* the batches of b rows of 0/1 entries
Batches(b, width) == [1..b -> [1..width -> {0, 1}]]

\* the lists of distinct agent indices below n, the empty list included
AgentLists(n) ==
    {l \in UNION {[1..k -> 0..(n - 1)] : k \in 0..n} :
        \A i, j \in 1..Len(l) : i # j => l[i] # l[j]}

AgentsArgs(n) == {NoneAgents} \cup {ListAgents(l) : l \in AgentLists(n)}

Init ==
    /\ module = [class |-> "None"]
    /\ ret = [status |-> "none", call |-> "", err |-> ""]
    /\ grads = <<>>

ConstructCritic ==
    /\ module = NoModule
    /\ \E n \in 1..MaxAgents, hidden_dim \in HiddenDims, norm_in \in BOOLEAN,
       attend_heads \in AttendHeads, seed \in Seeds :
          NewAttentionCritic(SaSizes(n), hidden_dim, norm_in, attend_heads,
                             seed)

\* a constructed critic is called once: forward reads nothing that an
\* earlier call left behind
CallForward ==
    \E b \in 1..MaxBatch, p \in Patterns :
        /\ module.class = "AttentionCritic"
        /\ ret.call = "AttentionCritic.__init__"
        /\ \E agentsArg \in AgentsArgs(module.nagents) :
             ACForward(Inps(module.sa_sizes, b, p), agentsArg)

ConstructNetwork ==
    /\ module = NoModule
    /\ \E class \in NetClasses, input_dim \in InputDims,
          output_dim \in OutputDims, widths \in WidthsChoices,
          hidden_layers \in HiddenLayersChoices,
          selector_depth \in SelectorDepths, seed \in Seeds :
          NewNetwork(class, input_dim, output_dim, widths, hidden_layers,
                     0, selector_depth, seed)

CallNetworkForward ==
    \E b \in 1..MaxBatch :
        /\ module.class \in NetClasses
        /\ ret.call = "Network.__init__"
        /\ \E input \in Batches(b, ret.args.input_dim) : CallNetwork(input)

ConstructSAC ==
    /\ module = NoModule
    /\ \E n \in 1..MaxAgents, adim \in OutputDims, shape \in SacShapes,
          with_selector \in BOOLEAN, seed \in Seeds :
          NewSelectiveAttentionCritic(SacSaSizes(n, adim), shape.widths,
                                      shape.hidden_layers, 0,
                                      shape.selector_depth, with_selector,
                                      seed)

CallSACForward ==
    \E b \in 1..MaxBatch, p \in Patterns :
        /\ module.class = "SelectiveAttentionCritic"
        /\ ret.call = "SelectiveAttentionCritic.__init__"
        /\ \E outs \in {CriticOutputs(module, Inps(module.sa_sizes, b, p))} :
             \E agentsArg \in AgentsArgs(module.nagents) :
                SACForward(Inps(module.sa_sizes, b, p), agentsArg, outs)

Next ==
    \/ ConstructSAC
    \/ CallSACForward
    \/ ConstructCritic
    \/ CallForward
    \/ ConstructNetwork
    \/ CallNetworkForward

Spec == Init /\ [][Next]_vars

\* the gradients that a backward pass left on the parameters of a critic:
\* none at all, all of them, or all but one
AllParameters(m) == SharedParameters(m) \o PerAgentParameters(m)

GradChoices(m) ==
    {[p \in Range(AllParameters(m)) |->
         IF p \in missing THEN NoGrad ELSE Grad(g + p.index, 1)] :
       g \in 1..MaxGrad,
       missing \in {{}, Range(AllParameters(m))}
                   \cup {{p} : p \in Range(AllParameters(m))}}

InitGrads ==
    /\ \E n \in 1..MaxAgents, attend_heads \in AttendHeads, norm_in \in BOOLEAN :
          module = BuildAttentionCritic(SaSizes(n), 2, norm_in, attend_heads, 0)
    /\ grads \in GradChoices(module)
    /\ ret = [status |-> "ok", call |-> "AttentionCritic.__init__", err |-> ""]

\* the denominators are capped: a call multiplies them by nagents
CallScaleSharedGrads ==
    /\ \A p \in DOMAIN grads : grads[p].den * module.nagents <= MaxDen
    /\ ScaleSharedGrads

NextGrads == CallScaleSharedGrads

SpecGrads == InitGrads /\ [][NextGrads]_vars

(****************************** claims **************************************)
IsACForward == ret.call = "AttentionCritic.forward"

\* fractions that add up to 1
RECURSIVE ProdDen(_)
ProdDen(fs) == IF fs = <<>> THEN 1 ELSE Head(fs).den * ProdDen(Tail(fs))

SumsToOne(fs) ==
    IF \A k \in 1..Len(fs) : fs[k].den = fs[1].den
    THEN SumSeq([k \in 1..Len(fs) |-> fs[k].num]) = fs[1].den
    ELSE SumSeq([k \in 1..Len(fs) |->
                   fs[k].num * (ProdDen(fs) \div fs[k].den)]) = ProdDen(fs)

\* C1: for every non-empty list agents of agent indices (any subset of
\* 0..nagents-1), forward extracts one selector per head for each requested
\* agent (the selector at position i is that of the agent at position i), each
\* requested agent gets attend_heads attention results, and a Q result is
\* produced for each requested agent.  Stated for the calls that the rest of
\* forward lets return at all: at least three agents and two batch rows.
C1_Claim ==
    (/\ IsACForward
     /\ Len(ret.agents) >= 1
     /\ module.nagents >= 3
     /\ Len(ret.args.inps[1].s) >= 2)
    => /\ ret.sel_pos = [i \in 1..Len(ret.agents) |-> i - 1]
       /\ \A i \in 1..Len(ret.agents) :
            Len(ret.attend[i]) = module.attend_heads
       /\ ret.status = "ok"
       /\ Len(ret.steps) = Len(ret.agents)

\* C2: in AttentionCritic.forward, for every requested agent and every head,
\* the attention weights over the other agents are each in [0, 1] and sum to
\* 1 in every batch row; a call that returns has them for every requested
\* agent and every head.
C2_AttentionWeightsNormalised ==
    IsACForward =>
      /\ ret.status = "ok" =>
            \A i \in 1..Len(ret.agents) :
                Len(ret.attend[i]) = module.attend_heads
      /\ \A i \in 1..Len(ret.attend) : \A h \in 1..Len(ret.attend[i]) :
            ret.attend[i][h].err = "" =>
              \A r \in 1..Len(ret.attend[i][h].probs) :
                 /\ Len(ret.attend[i][h].probs[r]) = module.nagents - 1
                 /\ \A k \in 1..Len(ret.attend[i][h].probs[r]) :
                      /\ ret.attend[i][h].probs[r][k].den > 0
                      /\ ret.attend[i][h].probs[r][k].num >= 0
                      /\ ret.attend[i][h].probs[r][k].num
                           <= ret.attend[i][h].probs[r][k].den
                 /\ SumsToOne(ret.attend[i][h].probs[r])

\* a returned call for a list that is no prefix of the agents, with weights
\* that are not uniform
C2_Witness ==
    /\ IsACForward
    /\ ret.status = "ok"
    /\ ret.agents = <<1, 0>>
    /\ \E h \in 1..Len(ret.attend[1]) : \E r \in 1..Len(ret.attend[1][h].probs) :
         ret.attend[1][h].probs[r][1].num # ret.attend[1][h].probs[r][2].num

\* C3: for every requested agent a_i and every head, the keys and values
\* attended over are those of the agents j of 0..nagents-1 with j # a_i, in
\* increasing order of j (nagents-1 entries): a_i's own encoding is never
\* among them, and the agents not listed in agents are.
C3_AttendsOverOthers ==
    IsACForward =>
      \A i \in 1..Len(ret.attend) : \A h \in 1..Len(ret.attend[i]) :
         LET at == ret.attend[i][h]
         IN /\ at.a_i = ret.agents[i]
            /\ Len(at.others) = module.nagents - 1
            /\ Range(at.others) = (0..(module.nagents - 1)) \ {ret.agents[i]}
            /\ \A k \in 1..(Len(at.others) - 1) : at.others[k] < at.others[k + 1]
            /\ at.err = "" =>
                 \A r \in 1..Len(at.logits) :
                    Len(at.logits[r]) = module.nagents - 1

\* agents 1 and 0 requested among three agents: agent 1 attends over 0 and
\* 2, agent 0 over 1 and 2; agent 2, not requested, is attended over
C3_Witness ==
    /\ IsACForward
    /\ ret.agents = <<1, 0>>
    /\ module.nagents = 3
    /\ ret.status = "ok"
    /\ ret.attend[1][1].others = <<0, 2>>
    /\ ret.attend[2][1].others = <<1, 2>>

\* C4: constructing an AttentionCritic fails with an assertion error exactly
\* when hidden_dim is not divisible by attend_heads; when it is, the per-head
\* dimension is hidden_dim / attend_heads, and the critic input formed in
\* forward has width exactly 2 * hidden_dim, the width of the first critic
\* layer.
C4_Claim ==
    /\ ret.call = "AttentionCritic.__init__" =>
         /\ (ret.err = "AssertionError")
              <=> (ret.hidden_dim % ret.attend_heads # 0)
         /\ ret.err = "" =>
              \A h \in 1..Len(module.key_extractors) :
                 /\ module.key_extractors[h][1].out * ret.attend_heads
                      = ret.hidden_dim
                 /\ module.critics[1][1].in = 2 * ret.hidden_dim
    /\ IsACForward =>
         \A i \in 1..Len(ret.steps) :
            ~IsErr(ret.steps[i].critic_in) =>
               Cols(ret.steps[i].critic_in) = At(module.critics, ret.agents[i])[1].in

\* C5: constructing a SelectiveAttentionNetwork or an AttentionNetwork fails
\* with an assertion error whenever len(widths) # len(hidden_layers) or
\* selector_depth < 1, and no network is built then; otherwise it builds
\* exactly len(widths) strains.
C5_NetworkAssertions ==
    ret.call = "Network.__init__" =>
      IF Len(ret.args.widths) # Len(ret.args.hidden_layers)
         \/ ret.args.selector_depth < 1
      THEN ret.err = "AssertionError" /\ module = NoModule
      ELSE /\ ret.err = ""
           /\ module.class = ret.args.class
           /\ Len(module.strains) = Len(ret.args.widths)
           /\ \A i \in 1..Len(module.strains) :
                /\ module.strains[i][1].out = ret.args.widths[i]
                /\ Len(module.strains[i])
                     = 2 + (IF ret.args.hidden_layers[i] > 1
                            THEN ret.args.hidden_layers[i] - 1 ELSE 0)

\* a network of two strains built, and a construction refused for its depth
C5_Witness ==
    /\ ret.call = "Network.__init__"
    /\ ret.err = ""
    /\ module.class = "AttentionNetwork"
    /\ Len(module.strains) = 2

C5_WitnessRefused ==
    /\ ret.call = "Network.__init__"
    /\ ret.err = "AssertionError"
    /\ ret.args.selector_depth < 1
    /\ Len(ret.args.widths) = Len(ret.args.hidden_layers)

\* C6: SelectiveAttentionCritic.forward called with regularize=True returns,
\* for every requested agent, a regularization term (a 1-tuple), whichever of
\* the two strain networks the critic was built with.  Stated for the calls in
\* which the critic networks themselves compute their output.
C6_Claim ==
    (/\ ret.call = "SelectiveAttentionCritic.forward"
     /\ ret.args.regularize
     /\ Len(ret.agents) >= 1
     /\ ret.err # "RuntimeError")
    => /\ ret.status = "ok"
       /\ \A i \in 1..Len(ret.agents) :
            \E k \in 1..Len(ret.value.items[i].items) :
               /\ ret.value.items[i].items[k].kind = "regs"
               /\ Len(ret.value.items[i].items[k].v) = 1

\* C7: SelectiveAttentionNetwork.forward mixes the strain outputs with a
\* softmax over the strains: in every batch row the scores are non-negative
\* and sum to 1 across the strains, and the output row is the sum over the
\* strains of the strain's output times its score.  Stated for the outputs of
\* the width that line 263 repeats the scores to.
C7_Claim ==
    (/\ ret.call = "Network.forward"
     /\ module.class = "SelectiveAttentionNetwork"
     /\ ret.status = "ok"
     /\ Cols(ret.strain_outputs[1]) = RepeatCols)
    => \A r \in 1..Len(ret.scores) :
          /\ Len(ret.scores[r]) = Len(module.strains)
          /\ \A i \in 1..Len(ret.scores[r]) : ret.scores[r][i].num >= 0
          /\ SumsToOne(ret.scores[r])
          /\ \A c \in 1..Cols(ret.output) :
                ret.output.data[r][c]
                  = SumSeq([i \in 1..Len(ret.scores[r]) |->
                       (ret.strain_outputs[i].data[r][c] * ret.scores[r][i].num)
                       \div ret.scores[r][i].den])

IsScaleCall == ret.call = "AttentionCritic.scale_shared_grads"

\* n * a = b as fractions: a is b multiplied by 1/n
IsScaledBy(a, b, n) ==
    /\ ~a.none /\ ~b.none
    /\ a.num * b.den * n = b.num * a.den

\* C8: a call of scale_shared_grads multiplies the gradient of every
\* parameter of the shared modules by 1/nagents exactly once and leaves the
\* gradients of the critic heads and of the state encoders unchanged; it
\* requires every shared parameter to have a gradient (it raises otherwise,
\* and the unshared gradients are unchanged then too).
C8_ScaleSharedGrads ==
    [][IsScaleCall' =>
        /\ \A p \in Range(PerAgentParameters(module)) : grads'[p] = grads[p]
        /\ IF \A p \in Range(SharedParameters(module)) : ~grads[p].none
           THEN /\ ret'.status = "ok"
                /\ \A p \in Range(SharedParameters(module)) :
                      IsScaledBy(grads'[p], grads[p], module.nagents)
           ELSE ret'.err = "AttributeError"]_vars

\* the shared gradients of a critic of two or more agents scaled twice, with
\* the unshared gradients in place
C8_Witness ==
    /\ IsScaleCall
    /\ ret.status = "ok"
    /\ module.nagents >= 2
    /\ \A p \in Range(SharedParameters(module)) :
          grads[p].den = module.nagents * module.nagents
    /\ \A p \in Range(PerAgentParameters(module)) :
          ~grads[p].none /\ grads[p].den = 1

\* a call refused for a shared parameter without gradient
C8_WitnessRaises ==
    /\ IsScaleCall
    /\ ret.err = "AttributeError"
    /\ \E p \in Range(SharedParameters(module)) : ~grads[p].none

ExpectedKinds(args) ==
    (IF args.return_q THEN <<"q">> ELSE <<>>)
    \o (IF args.return_all_q THEN <<"all_q">> ELSE <<>>)
    \o (IF args.regularize THEN <<"regs">> ELSE <<>>)
    \o (IF args.return_attend THEN <<"attend">> ELSE <<>>)

ItemOf(i, kind) ==
    IF kind = "q" THEN ret.steps[i].q
    ELSE IF kind = "all_q" THEN ret.steps[i].all_q
    ELSE IF kind = "regs" THEN AttendMagReg(ret.attend[i])
    ELSE [h \in 1..Len(ret.attend[i]) |-> ret.attend[i][h].probs]

\* C9: the result of AttentionCritic.forward: per requested agent the items
\* q, all_q, regularization tuple, attention weights, each if its flag is set
\* and in this order; the agent's result is the bare item when exactly one
\* was collected and a list otherwise; the overall result is the bare agent
\* result when exactly one agent was requested and otherwise a list with one
\* entry per requested agent, in the order of agents.  A result exists when
\* forward returns: with return_attend in grad mode line 163 raises instead.
C9_ResultStructure ==
    (IsACForward /\ ret.status = "ok") =>
      /\ Len(ret.value.items) = Len(ret.agents)
      /\ ret.value.bare <=> (Len(ret.agents) = 1)
      /\ \A i \in 1..Len(ret.agents) :
           LET ar == ret.value.items[i]
           IN /\ [k \in 1..Len(ar.items) |-> ar.items[k].kind]
                   = ExpectedKinds(ret.args)
              /\ ar.bare <=> (Len(ExpectedKinds(ret.args)) = 1)
              /\ \A k \in 1..Len(ar.items) :
                    ar.items[k].v = ItemOf(i, ar.items[k].kind)
              /\ Len(ret.steps[i].all_q[1])
                   = At(module.sa_sizes, ret.agents[i])[2]

\* all four items for three agents in a permuted order, under no_grad
C9_Witness ==
    /\ IsACForward
    /\ ret.status = "ok"
    /\ ret.args.return_attend
    /\ ~ret.args.grad_enabled
    /\ ret.agents = <<2, 0, 1>>
    /\ ~ret.value.bare
    /\ Len(ret.value.items[1].items) = 4

\* one agent, one item: the bare item of the bare agent result
C9_WitnessBare ==
    /\ IsACForward
    /\ ret.status = "ok"
    /\ ret.agents = <<0>>
    /\ ret.value.bare
    /\ ret.value.items[1].bare
    /\ ret.value.items[1].items[1].kind = "all_q"

\* attention weights asked for in grad mode: np.array raises at line 163
\* for the first agent, whose Q-values were computed
C9_WitnessRaises ==
    /\ IsACForward
    /\ ret.args.return_attend
    /\ ret.args.grad_enabled
    /\ ret.err = "RuntimeError"
    /\ Len(ret.steps) = 1
    /\ ret.steps[1].err = ""

\* C10: in AttentionCritic.forward and in SelectiveAttentionCritic.forward
\* the q of a requested agent a_i is, in every batch row, the entry of the
\* all_q row of a_i's critic at the index of the maximum of a_i's own action
\* row, whatever the position of a_i in agents.
C10_QIsGatheredByOwnAction ==
    (ret.call \in {"AttentionCritic.forward",
                   "SelectiveAttentionCritic.forward"}
     /\ ret.status = "ok") =>
      \A i \in 1..Len(ret.agents) :
         LET a_i == ret.agents[i]
             actions == At(ret.args.inps, a_i).a
             st == ret.steps[i]
         IN /\ Len(st.q) = Len(actions)
            /\ \A r \in 1..Len(actions) :
                  \E k \in 1..Len(actions[r]) :
                     /\ \A l \in 1..Len(actions[r]) :
                           actions[r][l] <= actions[r][k]
                     /\ st.q[r] = <<st.all_q[r][k]>>
            /\ IsACForward =>
                  st.all_q = ApplySeq(At(module.critics, a_i), st.critic_in).data
            /\ ~IsACForward =>
                  st.all_q = At(ret.critic_outputs, a_i).data
            /\ ret.args.return_q =>
                  ret.value.items[i].items[1].v = st.q

\* agent 1 at position 0 and agent 0 at position 1, whose chosen actions
\* differ in some row
C10_Witness ==
    /\ IsACForward
    /\ ret.status = "ok"
    /\ ret.agents = <<1, 0>>
    /\ ret.args.return_q
    /\ \E r \in 1..Len(ret.args.inps[1].a) :
          ArgMax(ret.args.inps[1].a[r]) # ArgMax(ret.args.inps[2].a[r])

C10_WitnessSelective ==
    /\ ret.call = "SelectiveAttentionCritic.forward"
    /\ ret.status = "ok"
    /\ ret.agents = <<1, 0>>
    /\ ret.args.return_q
    /\ module.with_selector
    /\ \E r \in 1..Len(ret.args.inps[1].a) :
          ArgMax(ret.args.inps[1].a[r]) # ArgMax(ret.args.inps[2].a[r])

\* the output_dim a strain network was constructed with: the width of the
\* last layer of its strains
OutputDimOf(net) == net.strains[1][Len(net.strains[1])].out

\* C11: for every output_dim >= 1 given at construction,
\* SelectiveAttentionNetwork.forward succeeds and returns an output of width
\* output_dim per input sample, and therefore a SelectiveAttentionCritic built
\* with with_selector=True computes, for every requested agent, an all_q of the
\* width of that agent's action.  Stated for networks of at least one strain.
C11_Claim ==
    /\ (/\ ret.call = "Network.forward"
        /\ module.class = "SelectiveAttentionNetwork"
        /\ Len(module.strains) >= 1)
       => /\ ret.status = "ok"
          /\ Rows(ret.output) = Len(ret.input)
          /\ Cols(ret.output) = OutputDimOf(module)
    /\ (/\ ret.call = "SelectiveAttentionCritic.forward"
        /\ module.with_selector)
       => /\ Len(ret.steps) = Len(ret.agents)
          /\ \A i \in 1..Len(ret.steps) :
                /\ ret.steps[i].err = ""
                /\ Len(ret.steps[i].all_q) = Len(ret.args.inps[1].s)
                /\ \A r \in 1..Len(ret.steps[i].all_q) :
                      Len(ret.steps[i].all_q[r])
                        = At(module.sa_sizes, ret.agents[i])[2]

====
